---- MODULE Spec2Model ----
(***************************************************************************)
(* Model of asc's streaming conversation loop                              *)
(* (internal/conversation/conversation.go, StartNewConversation).          *)
(*                                                                         *)
(* Strings are sequences of one-character strings.  The AI command's       *)
(* stdout, the glow renderer and the file system are the environment:      *)
(* each scanner.Scan(), glowCmd.Run(), SaveNewConversation() and           *)
(* aiCmd.Wait() outcome is chosen nondeterministically.                    *)
(***************************************************************************)
EXTENDS Integers, Sequences, FiniteSets

\* ---- bounds of the model ----
MaxFragments == 2
MaxRenderLen == 5
MaxConversations == 3
MaxSaves == 2
MaxQueryFragments == 1
MaxTicks == 3
MaxRunning == 2

\* ---- program constants ----
HELD_OUT_LINE_COUNT == 4

\* Clock ticks per second: time.Now() is finer than the seconds of an ID.
TicksPerSecond == 2

NL == "\n"
CR == "\r"

\* Lines scanner.Text() can deliver (bufio.ScanLines: no "\n" inside; a "\r"
\* survives when the command wrote "\r\r\n").
Fragments == { <<"a">>, <<CR>> }

\* Characters glow's stdout is drawn from.
RenderChars == { "a", NL }

RECURSIVE StringsUpTo(_, _)
StringsUpTo(chars, n) ==
    IF n = 0 THEN { <<>> }
    ELSE LET shorter == StringsUpTo(chars, n - 1)
         IN  shorter \cup { Append(s, c) : s \in { t \in shorter : Len(t) = n - 1 }, c \in chars }

\* Every output glow may write to glowOutput (any text up to MaxRenderLen).
Renders == StringsUpTo(RenderChars, MaxRenderLen)

\* Go builtin max on ints.
max(a, b) == IF a >= b THEN a ELSE b

\* strings.Split(s, "\n"): always at least one element; "" gives [""].
RECURSIVE Split(_)
Split(s) ==
    IF s = <<>> THEN << <<>> >>
    ELSE LET rest == Split(Tail(s))
         IN  IF Head(s) = NL
             THEN << <<>> >> \o rest
             ELSE << <<Head(s)>> \o Head(rest) >> \o Tail(rest)

\* for i := lo; i < hi; i++ { fmt.Println(lines[i]) }  (0-based i):
\* the sequence of Println arguments.
RECURSIVE PrintLoop(_, _, _)
PrintLoop(lines, lo, hi) ==
    IF lo < hi THEN << lines[lo + 1] >> \o PrintLoop(lines, lo + 1, hi)
    ELSE << >>

\* The values i takes in that loop.
RECURSIVE IndexLoop(_, _)
IndexLoop(lo, hi) ==
    IF lo < hi THEN << lo >> \o IndexLoop(lo + 1, hi)
    ELSE << >>

\* Variant of EmitStart that starts every emit at the first line.
EmitStart_FromZero(prev, held) == 0

\* Lines 263/265: first index printed after a changed render.
EmitStart(prev, held) == max(0, Len(Split(prev)) - held)

\* Variant of EmitEnd whose loop limit is one too far (i <= instead of i <).
EmitEnd_OffByOne(cur, held) == Len(Split(cur)) - held + 1

\* Variant of EmitEnd that withholds nothing.
EmitEnd_NoHold(cur, held) == Len(Split(cur))

\* Variant of EmitEnd with a stale held-out count of 3.
EmitEnd_HoldThree(cur, held) == Len(Split(cur)) - 3

\* Lines 264/265: loop limit after a changed render.
EmitEnd(cur, held) == Len(Split(cur)) - held

\* Variant of FragmentLines that reprints every stable line on each fragment.
FragmentLines_Reprint(prev, cur, held) ==
    PrintLoop(Split(cur), 0, EmitEnd(cur, held))

\* Lines 262-267: what one iteration prints for the new glow output.
FragmentLines(prev, cur, held) ==
    IF prev # cur
    THEN PrintLoop(Split(cur), EmitStart(prev, held), EmitEnd(cur, held))
    ELSE << >>

\* Lines 262-267: the indices i of those Println calls.
FragmentIdx(prev, cur, held) ==
    IF prev # cur
    THEN IndexLoop(EmitStart(prev, held), EmitEnd(cur, held))
    ELSE << >>

\* Lines 230-233: the final flush of the withheld tail.
FlushLines(prev, held) ==
    PrintLoop(Split(prev), max(0, Len(Split(prev)) - held), Len(Split(prev)))

\* Lines 230-233: the indices i of the flush loop.
FlushIdx(prev, held) ==
    IndexLoop(max(0, Len(Split(prev)) - held), Len(Split(prev)))

\* Variant of TrimRight that strips newlines only.
RECURSIVE TrimRight_NewlineOnly(_)
TrimRight_NewlineOnly(s) ==
    IF s = <<>> THEN s
    ELSE IF s[Len(s)] = NL
         THEN TrimRight_NewlineOnly(SubSeq(s, 1, Len(s) - 1))
         ELSE s

\* Lines 235-237: strings.TrimRightFunc(buffer, r == '\n' || r == '\r').
RECURSIVE TrimRight(_)
TrimRight(s) ==
    IF s = <<>> THEN s
    ELSE IF s[Len(s)] = NL \/ s[Len(s)] = CR
         THEN TrimRight(SubSeq(s, 1, Len(s) - 1))
         ELSE s

\* Variant of AfterGlowError that leaves the loop (break) instead of returning.
AfterGlowError_Break == "wait"

\* Where control goes when glowCmd.Run() fails (line 260: return).
AfterGlowError == "done"

\* Variant of AfterReadError that keeps looping instead of returning.
AfterReadError_Continue == "scan"

\* Where control goes when scanner.Err() is a read error (line 224: return).
AfterReadError == "done"

\* Where control goes after the flush loop (line 238: call SaveNewConversation).
AfterFlush == "save"

\* Variant of AfterScanLine that reads the next line before rendering this one.
AfterScanLine_SkipGlow == "scan"

\* Variant of WaitReturn that drops the error of aiCmd.Wait().
WaitReturn_IgnoreError(ok) == "nil"

\* Lines 272-276: the return value after aiCmd.Wait() (ok: err == nil).
WaitReturn(ok) == IF ok THEN "nil" ELSE "errWait"

\* Where control goes once scanner.Text() is appended (lines 246-259: run glow).
AfterScanLine == "glow"

\* Line 243: buffer.WriteString(scanner.Text() + "\n").
WriteLine(buf, line) == buf \o line \o << NL >>

\* Variant of GlowStdin that renders only the newest line.
GlowStdin_LatestLine(buf, line) == line \o << NL >>

\* Line 254: glowCmd.Stdin = strings.NewReader(buffer.String()).
GlowStdin(buf, line) == buf

\* The literal pieces of the format string of line 179.
ContextHeader == << "#", " ", "C", "o", "n", "t", "e", "x", "t", NL >>
QuestionHeader == << NL, NL, "#", " ", "Q", "u", "e", "s", "t", "i", "o", "n", NL >>

\* Lines 176-182: the message handed to the AI command.
FullMessage(msg, ctx, perplexity) ==
    IF ~perplexity /\ ctx # << >>
    THEN ContextHeader \o ctx \o QuestionHeader \o msg
    ELSE msg

\* Variant of SavedMessage that stores the message sent to the AI command.
SavedMessage_Full(msg, full) == full

\* Line 238: the message argument of SaveNewConversation.
SavedMessage(msg, full) == msg

\* Command-line messages and context.txt contents the model draws from.
Messages == { << "q" >> }
Contexts == { << >>, << "c" >> }

VARIABLES
    pc,                  \* position in StartNewConversation: scan, glow, save, wait, done
    buffer,              \* strings.Builder buffer
    previousGlowOutput,  \* previousGlowOutput
    printed,             \* arguments of all fmt.Println calls so far, in order
    printedIdx,          \* the line index i of each of those calls
    nfrag,               \* lines delivered by scanner.Scan() so far
    glowCalls,           \* glowCmd.Run() invocations so far
    flushed,             \* the flush loop of lines 230-233 has run
    saveCalls,           \* SaveNewConversation invocations so far
    store,               \* conversation files written by this session
    ret,                 \* return value: running, nil, errRead, errGlow, errSave, errWait
    message,             \* parameter message
    context,             \* result of LoadContext
    usePerplexity,       \* parameter usePerplexity
    query,               \* last argument of the AI command (fullMessage)
    delivered,           \* the scanner.Text() values so far, in order
    glowStdin,           \* stdin of the latest glow process
    saveArgs,            \* (response, message, context) of each SaveNewConversation call
    maxLines,            \* greatest line count of any glow output so far (0: none yet)
    tailStable,          \* no glow output so far changed the last lines of its predecessor
    renderChanged,       \* line 262 in the latest iteration: previousGlowOutput != glowOutput
    nonDecreasing,       \* no glow output so far had fewer lines than its predecessor
    waitResult           \* outcome of aiCmd.Wait(): none (not called yet), ok, failed

sessionVars == << pc, buffer, previousGlowOutput, printed, printedIdx, nfrag,
                  glowCalls, flushed, saveCalls, store, ret, message, context,
                  usePerplexity, query, delivered, glowStdin, saveArgs,
                  maxLines, tailStable, renderChanged, nonDecreasing, waitResult >>

VARIABLES
    files,               \* IDs of the conversation files in the data directory
    conversations,       \* m.conversations
    rows,                \* rows of m.table (the ID column)
    cursor,              \* m.table.Cursor()
    showConfirm,         \* m.showConfirm
    selectedID,          \* m.selectedID (0: empty string)
    quit,                \* tea.Quit was returned
    lastKey,             \* the key of the latest tea.KeyMsg ("none": another message)
    lastEffect,          \* what the latest Update call invoked, and on which ID
    latest               \* conversation picked by the latest append/edit command

viewVars == << files, conversations, rows, cursor, showConfirm, selectedID,
               quit, lastKey, lastEffect, latest >>

VARIABLES
    now,                 \* time.Now(), in ticks of 1/TicksPerSecond second
    saves                \* SaveNewConversation calls that returned nil

clockVars == << now, saves >>

VARIABLES
    sessions,            \* asc processes inside StartNewConversation, before line 241
    waiting,             \* asc processes in aiCmd.Wait() (line 272) after a nil save
    editing,             \* asc edit processes waiting in editCmd.Run()
    viewEditing,         \* editor commands the view returned, their message not yet handled
    starting             \* asc new commands the view returned, the process not yet started

procVars == << sessions, waiting, editing, viewEditing, starting >>

vars == << sessionVars, viewVars, clockVars, procVars >>

\* Processes started and not finished.
Running == sessions + waiting + editing + viewEditing + starting

\* The instant the model starts at: the first tick of second MaxConversations,
\* with no save made and no other asc process or editor running.
InitClock ==
    /\ now = MaxConversations * TicksPerSecond
    /\ saves = 0
    /\ sessions = 0
    /\ editing = 0
    /\ viewEditing = 0
    /\ waiting = 0
    /\ starting = 0

\* The last min(n, HELD_OUT_LINE_COUNT) lines of a glow output.
LastLines(s) ==
    LET lines == Split(s)
        n     == Len(lines)
    IN  SubSeq(lines, max(0, n - HELD_OUT_LINE_COUNT) + 1, n)

\* State at line 220 for the given arguments, before the first scanner.Scan().
InitSession(msg, ctx, perplexity) ==
    /\ pc = "scan"
    /\ buffer = << >>
    /\ previousGlowOutput = << >>
    /\ printed = << >>
    /\ printedIdx = << >>
    /\ nfrag = 0
    /\ glowCalls = 0
    /\ flushed = FALSE
    /\ saveCalls = 0
    /\ store = << >>
    /\ ret = "running"
    /\ message = msg
    /\ context = ctx
    /\ usePerplexity = perplexity
    /\ query = FullMessage(msg, ctx, perplexity)
    /\ delivered = << >>
    /\ glowStdin = << >>
    /\ saveArgs = << >>
    /\ maxLines = 0
    /\ tailStable = TRUE
    /\ renderChanged = FALSE
    /\ nonDecreasing = TRUE
    /\ waitResult = "none"

\* m.table.SetRows: a cursor past the last row moves to the last row.
SetRowsCursor(cur, n) == IF cur > n - 1 THEN n - 1 ELSE cur

\* The history view as StartView builds it on an empty directory, before
\* any key: no conversation, SetRows with no row.
InitViewIdle ==
    /\ files = { }
    /\ conversations = << >>
    /\ rows = << >>
    /\ cursor = SetRowsCursor(0, 0)
    /\ showConfirm = FALSE
    /\ selectedID = 0
    /\ quit = FALSE
    /\ lastKey = "none"
    /\ lastEffect = [ kind |-> "none", id |-> 0 ]
    /\ latest = [ cmd |-> "none", id |-> 0 ]
    /\ InitClock

\* asc new "q" with sgpt and a stored context, at line 220.
Init ==
    /\ InitSession(<< "q" >>, << "c" >>, FALSE)
    /\ InitViewIdle

\* Lines 221, 243: Scan() delivers a line; it is appended to buffer.
ScanLine ==
    /\ pc = "scan"
    /\ nfrag < MaxFragments
    /\ \E f \in Fragments :
          /\ buffer' = WriteLine(buffer, f)
          /\ delivered' = Append(delivered, f)
    /\ nfrag' = nfrag + 1
    /\ pc' = AfterScanLine
    /\ UNCHANGED << previousGlowOutput, printed, printedIdx, glowCalls,
                    flushed, saveCalls, store, ret, message, context,
                    usePerplexity, query, glowStdin, saveArgs, maxLines, tailStable,
                    renderChanged, nonDecreasing,
                    waitResult >>
    /\ UNCHANGED viewVars
    /\ UNCHANGED clockVars
    /\ UNCHANGED procVars

\* Lines 246-269: glowCmd.Run() succeeds with output r; the stable lines print.
GlowRenders ==
    /\ pc = "glow"
    /\ glowStdin' = GlowStdin(buffer, delivered[Len(delivered)])
    /\ \E r \in Renders :
          /\ printed' = printed \o FragmentLines(previousGlowOutput, r, HELD_OUT_LINE_COUNT)
          /\ printedIdx' = printedIdx \o FragmentIdx(previousGlowOutput, r, HELD_OUT_LINE_COUNT)
          /\ previousGlowOutput' = r
          /\ maxLines' = max(maxLines, Len(Split(r)))
          /\ tailStable' = (tailStable /\ (glowCalls = 0 \/ LastLines(r) = LastLines(previousGlowOutput)))
          /\ renderChanged' = (previousGlowOutput # r)
          /\ nonDecreasing' = (nonDecreasing /\ Len(Split(r)) >= Len(Split(previousGlowOutput)))
    /\ glowCalls' = glowCalls + 1
    /\ pc' = "scan"
    /\ UNCHANGED << buffer, nfrag, flushed, saveCalls, store, ret, message, context,
                    usePerplexity, query, delivered, saveArgs, waitResult >>
    /\ UNCHANGED viewVars
    /\ UNCHANGED clockVars
    /\ UNCHANGED procVars

\* Lines 246-261: glowCmd.Run() fails.
GlowFails ==
    /\ pc = "glow"
    /\ glowStdin' = GlowStdin(buffer, delivered[Len(delivered)])
    /\ glowCalls' = glowCalls + 1
    /\ pc' = AfterGlowError
    /\ ret' = "errGlow"
    /\ UNCHANGED << buffer, previousGlowOutput, printed, printedIdx, nfrag,
                    flushed, saveCalls, store, message, context, usePerplexity,
                    query, delivered, saveArgs, maxLines, tailStable, renderChanged, nonDecreasing,
                    waitResult >>
    /\ UNCHANGED viewVars
    /\ UNCHANGED clockVars
    /\ UNCHANGED procVars

\* Lines 221-225: Scan() returns false with a read error.
ScanReadError ==
    /\ pc = "scan"
    /\ pc' = AfterReadError
    /\ ret' = "errRead"
    /\ UNCHANGED << buffer, previousGlowOutput, printed, printedIdx, nfrag,
                    glowCalls, flushed, saveCalls, store, message, context,
                    usePerplexity, query, delivered, glowStdin, saveArgs,
                    maxLines, tailStable, renderChanged, nonDecreasing,
                    waitResult >>
    /\ UNCHANGED viewVars
    /\ UNCHANGED clockVars
    /\ UNCHANGED procVars

\* Lines 221-233: Scan() returns false at EOF; the withheld tail is flushed.
ScanEOF ==
    /\ pc = "scan"
    /\ printed' = printed \o FlushLines(previousGlowOutput, HELD_OUT_LINE_COUNT)
    /\ printedIdx' = printedIdx \o FlushIdx(previousGlowOutput, HELD_OUT_LINE_COUNT)
    /\ flushed' = TRUE
    /\ pc' = AfterFlush
    /\ UNCHANGED << buffer, previousGlowOutput, nfrag, glowCalls, saveCalls, store,
                    ret, message, context, usePerplexity, query, delivered,
                    glowStdin, saveArgs, maxLines, tailStable, renderChanged, nonDecreasing,
                    waitResult >>
    /\ UNCHANGED viewVars
    /\ UNCHANGED clockVars
    /\ UNCHANGED procVars

\* Lines 235-241 and 29-77: SaveNewConversation(response, message, context).
\* outcome "ok": both writes succeed; "early": fails before the first
\* os.WriteFile succeeds; "late": the first write succeeded, the second failed.
SaveConversation ==
    /\ pc = "save"
    /\ saveCalls' = saveCalls + 1
    /\ LET args == [ response |-> TrimRight(buffer),
                     message  |-> SavedMessage(message, query),
                     context  |-> context ]
       IN  /\ saveArgs' = Append(saveArgs, args)
           /\ \E outcome \in { "ok", "early", "late" } :
                 /\ store' = IF outcome = "early" THEN store
                             ELSE Append(store, [ response |-> args.response,
                                                  message  |-> args.message,
                                                  context  |-> args.context,
                                                  filePath |-> (outcome = "ok") ])
                 /\ IF outcome = "ok"
                    THEN pc' = "wait" /\ ret' = ret
                    ELSE pc' = "done" /\ ret' = "errSave"
    /\ UNCHANGED << buffer, previousGlowOutput, printed, printedIdx, nfrag,
                    glowCalls, flushed, message, context, usePerplexity, query,
                    delivered, glowStdin, maxLines, tailStable, renderChanged, nonDecreasing,
                    waitResult >>
    /\ UNCHANGED viewVars
    /\ UNCHANGED clockVars
    /\ UNCHANGED procVars

\* Lines 272-276: aiCmd.Wait().
WaitCommand ==
    /\ pc = "wait"
    /\ pc' = "done"
    /\ \E ok \in BOOLEAN :
          /\ waitResult' = IF ok THEN "ok" ELSE "failed"
          /\ ret' = WaitReturn(ok)
    /\ UNCHANGED << buffer, previousGlowOutput, printed, printedIdx, nfrag,
                    glowCalls, flushed, saveCalls, store, message, context,
                    usePerplexity, query, delivered, glowStdin, saveArgs,
                    maxLines, tailStable, renderChanged, nonDecreasing >>
    /\ UNCHANGED viewVars
    /\ UNCHANGED clockVars
    /\ UNCHANGED procVars

Next ==
    \/ ScanLine
    \/ GlowRenders
    \/ GlowFails
    \/ ScanReadError
    \/ ScanEOF
    \/ SaveConversation
    \/ WaitCommand

Spec == Init /\ [][Next]_vars

\* asc new with any message, context and provider.
InitQuery ==
    /\ \E msg \in Messages, ctx \in Contexts, perplexity \in BOOLEAN :
          InitSession(msg, ctx, perplexity)
    /\ InitViewIdle

\* Lines 221, 243 in the runs that vary the query: at most MaxQueryFragments
\* lines are delivered.
ScanLineQuery ==
    /\ nfrag < MaxQueryFragments
    /\ ScanLine

NextQuery ==
    \/ ScanLineQuery
    \/ GlowRenders
    \/ GlowFails
    \/ ScanReadError
    \/ ScanEOF
    \/ SaveConversation
    \/ WaitCommand

SpecQuery == InitQuery /\ [][NextQuery]_vars

\* ---------------------------------------------------------------------
\* The conversation files and the history view (package view), the append
\* and edit commands (cmd/asc.go).  A conversation's ID is time.Now()
\* formatted to the second and its Timestamp the same instant: the model's
\* clock counts seconds, and the file of conversation i is "<i>.json".
\* ---------------------------------------------------------------------
ConvIDs == 1..MaxConversations

\* The record json.Unmarshal yields for the file of ID i.
Conv(i) == [ id |-> i, ts |-> i ]

\* LoadConversations: os.ReadDir lists the files sorted by name, and the
\* records are appended in that order.
RECURSIVE LoadConversations(_)
LoadConversations(fs) ==
    IF fs = { } THEN << >>
    ELSE LET first == CHOOSE x \in fs : \A y \in fs : x <= y
         IN  << Conv(first) >> \o LoadConversations(fs \ { first })

\* A sequence without its k-th element.
RemoveAt(cs, k) == SubSeq(cs, 1, k - 1) \o SubSeq(cs, k + 1, Len(cs))

\* Variant of SortNewestFirst that leaves the order LoadConversations gave.
SortNewestFirst_Unsorted(cs) == cs

\* StartView: sort.Slice(conversations, Timestamp.After) - newest first.
RECURSIVE SortNewestFirst(_)
SortNewestFirst(cs) ==
    IF cs = << >> THEN << >>
    ELSE LET k == CHOOSE i \in 1..Len(cs) : \A j \in 1..Len(cs) : cs[i].ts >= cs[j].ts
         IN  << cs[k] >> \o SortNewestFirst(RemoveAt(cs, k))

\* Variant of RemoveByID that drops the first row whatever its ID.
RemoveByID_First(cs, id) == RemoveAt(cs, 1)

\* Update, "Remove from the list": drop the first conversation whose ID is id.
RemoveByID(cs, id) ==
    IF \E i \in 1..Len(cs) : cs[i].id = id
    THEN RemoveAt(cs, CHOOSE i \in 1..Len(cs) :
                        /\ cs[i].id = id
                        /\ \A j \in 1..(i - 1) : cs[j].id # id)
    ELSE cs

\* The table rows built from the conversations (their ID column).
RowsOf(cs) == [ i \in 1..Len(cs) |-> cs[i].id ]

\* m.table.Update on "up"/"down": the cursor moves by one, clamped to the rows.
MoveCursor(cur, delta, n) ==
    LET low == max(cur + delta, 0)
    IN  IF low < n - 1 THEN low ELSE n - 1

\* appendCmd / editCmd: latest := conversations[0].
PickLatest(cs) == cs[1]

\* Variant of ConfirmsDelete that deletes without the dialog.
ConfirmsDelete_NoDialog(confirm) == TRUE

\* Update, case "enter", "v": the key deletes when the dialog is showing.
ConfirmsDelete(confirm) == confirm

\* Update, case "d": the dialog opens on a non-empty list when it is closed.
OpensConfirm(confirm, cs) == ~confirm /\ Len(cs) > 0

\* Variant of QuitsOnEscQ that quits from the dialog too.
QuitsOnEscQ_Always(confirm) == TRUE

\* Variant of ConfirmAfterDeleteError that closes the dialog on a failed delete.
ConfirmAfterDeleteError_Close(confirm) == FALSE

\* Update, lines 223-226: a failed DeleteConversation returns m as it was.
ConfirmAfterDeleteError(confirm) == confirm

\* Update, case "esc", "q": the key quits unless the dialog is showing.
QuitsOnEscQ(confirm) == ~confirm

\* The view as StartView hands it to tea.NewProgram, for the files fs.
InitViewOn(fs) ==
    /\ files = fs
    /\ conversations = SortNewestFirst(LoadConversations(fs))
    /\ rows = RowsOf(SortNewestFirst(LoadConversations(fs)))
    /\ cursor = SetRowsCursor(0, Cardinality(fs))
    /\ showConfirm = FALSE
    /\ selectedID = 0
    /\ quit = FALSE
    /\ lastKey = "none"
    /\ lastEffect = [ kind |-> "none", id |-> 0 ]
    /\ latest = [ cmd |-> "none", id |-> 0 ]
    /\ InitClock

InitView ==
    /\ InitSession(<< "q" >>, << "c" >>, FALSE)
    /\ \E fs \in SUBSET ConvIDs : InitViewOn(fs)

\* Update, case "esc", "q".
KeyEscQ ==
    /\ ~quit
    /\ \E k \in { "esc", "q" } : lastKey' = k
    /\ IF QuitsOnEscQ(showConfirm)
       THEN /\ quit' = TRUE
            /\ showConfirm' = showConfirm
            /\ lastEffect' = [ kind |-> "quit", id |-> 0 ]
       ELSE /\ quit' = quit
            /\ showConfirm' = FALSE
            /\ lastEffect' = [ kind |-> "none", id |-> 0 ]
    /\ UNCHANGED << files, conversations, rows, cursor, selectedID, latest >>
    /\ UNCHANGED sessionVars
    /\ UNCHANGED clockVars
    /\ UNCHANGED procVars

\* Update, case "enter", "v" with the dialog showing: DeleteConversation
\* succeeds, the conversation leaves the list and the rows are rebuilt.
KeyConfirmDeleted ==
    /\ ~quit
    /\ ConfirmsDelete(showConfirm)
    /\ \E k \in { "enter", "v" } : lastKey' = k
    /\ selectedID \in files
    /\ lastEffect' = [ kind |-> "deleted", id |-> selectedID ]
    /\ files' = files \ { selectedID }
    /\ conversations' = RemoveByID(conversations, selectedID)
    /\ rows' = RowsOf(RemoveByID(conversations, selectedID))
    /\ cursor' = SetRowsCursor(cursor, Len(RemoveByID(conversations, selectedID)))
    /\ showConfirm' = FALSE
    /\ UNCHANGED << selectedID, quit, latest >>
    /\ UNCHANGED sessionVars
    /\ UNCHANGED clockVars
    /\ UNCHANGED procVars

\* Update, case "enter", "v" with the dialog showing: DeleteConversation
\* fails (os.Remove error) and the model is returned as it was.
KeyConfirmFailed ==
    /\ ~quit
    /\ ConfirmsDelete(showConfirm)
    /\ \E k \in { "enter", "v" } : lastKey' = k
    /\ lastEffect' = [ kind |-> "deleteFailed", id |-> selectedID ]
    /\ showConfirm' = ConfirmAfterDeleteError(showConfirm)
    /\ UNCHANGED << files, conversations, rows, cursor, selectedID, quit, latest >>
    /\ UNCHANGED sessionVars
    /\ UNCHANGED clockVars
    /\ UNCHANGED procVars

\* Update, case "enter", "v" without the dialog: open glow on the row.
KeyEnterV ==
    /\ ~quit
    /\ ~ConfirmsDelete(showConfirm)
    /\ \E k \in { "enter", "v" } : lastKey' = k
    /\ lastEffect' = IF Len(conversations) > 0
                     THEN [ kind |-> "glow", id |-> conversations[cursor + 1].id ]
                     ELSE [ kind |-> "none", id |-> 0 ]
    /\ UNCHANGED << files, conversations, rows, cursor, showConfirm, selectedID,
                    quit, latest >>
    /\ UNCHANGED sessionVars
    /\ UNCHANGED clockVars
    /\ UNCHANGED procVars

\* Update, case "V": open the pager on the row.
KeyShiftV ==
    /\ ~quit
    /\ lastKey' = "V"
    /\ lastEffect' = IF Len(conversations) > 0
                     THEN [ kind |-> "pager", id |-> conversations[cursor + 1].id ]
                     ELSE [ kind |-> "none", id |-> 0 ]
    /\ UNCHANGED << files, conversations, rows, cursor, showConfirm, selectedID,
                    quit, latest >>
    /\ UNCHANGED sessionVars
    /\ UNCHANGED clockVars
    /\ UNCHANGED procVars

\* Update, case "e": on a non-empty list editConversation is called on the
\* row.  It returns the command that opens the editor, or nil when the temp
\* file cannot be written or EDITOR is not set (lines 166-182).
KeyE ==
    /\ ~quit
    /\ lastKey' = "e"
    /\ \E launched \in BOOLEAN :
          IF Len(conversations) > 0 /\ launched
          THEN /\ Running < MaxRunning
               /\ lastEffect' = [ kind |-> "editor", id |-> conversations[cursor + 1].id ]
               /\ viewEditing' = viewEditing + 1
          ELSE /\ lastEffect' = [ kind |-> "none", id |-> 0 ]
               /\ viewEditing' = viewEditing
    /\ UNCHANGED << files, conversations, rows, cursor, showConfirm, selectedID,
                    quit, latest >>
    /\ UNCHANGED << sessions, waiting, editing, starting >>
    /\ UNCHANGED sessionVars
    /\ UNCHANGED clockVars

\* Update, case editCompleteMsg (an editor the view launched has exited and
\* its file was read): m is unchanged and the command that runs asc new on
\* the edited message is returned to the event loop.
EditComplete ==
    /\ ~quit
    /\ viewEditing > 0
    /\ viewEditing' = viewEditing - 1
    /\ starting' = starting + 1
    /\ lastKey' = "none"
    /\ lastEffect' = [ kind |-> "ascnew", id |-> 0 ]
    /\ UNCHANGED << files, conversations, rows, cursor, showConfirm, selectedID,
                    quit, latest >>
    /\ UNCHANGED << sessions, waiting, editing >>
    /\ UNCHANGED sessionVars
    /\ UNCHANGED clockVars

\* editConversation's callback returns the error of the editor (or of
\* os.ReadFile): Update has no case for it and hands it to m.table.Update.
EditFailed ==
    /\ ~quit
    /\ viewEditing > 0
    /\ viewEditing' = viewEditing - 1
    /\ lastKey' = "none"
    /\ lastEffect' = [ kind |-> "none", id |-> 0 ]
    /\ UNCHANGED << files, conversations, rows, cursor, showConfirm, selectedID,
                    quit, latest >>
    /\ UNCHANGED << sessions, waiting, editing, starting >>
    /\ UNCHANGED sessionVars
    /\ UNCHANGED clockVars

\* The event loop runs an asc new command the view returned: the process
\* starts and enters StartNewConversation (cmd/asc.go line 154), or it
\* cannot be started.
ExecStarts ==
    /\ starting > 0
    /\ starting' = starting - 1
    /\ \E ok \in BOOLEAN : sessions' = IF ok THEN sessions + 1 ELSE sessions
    /\ UNCHANGED << waiting, editing, viewEditing >>
    /\ UNCHANGED viewVars
    /\ UNCHANGED sessionVars
    /\ UNCHANGED clockVars

\* Update on a message it has no case for (the value the callbacks of lines
\* 154-160 and 282-287 return, a window size, ...): line 289 hands it to
\* m.table.Update, which acts on keys only.
OtherMsg ==
    /\ ~quit
    /\ lastKey' = "none"
    /\ lastEffect' = [ kind |-> "none", id |-> 0 ]
    /\ UNCHANGED << files, conversations, rows, cursor, showConfirm, selectedID,
                    quit, latest >>
    /\ UNCHANGED sessionVars
    /\ UNCHANGED clockVars
    /\ UNCHANGED procVars

\* Update on a key it has no case for, other than up and down: line 289
\* hands it to m.table.Update, whose key map may move the cursor to any row.
KeyOther ==
    /\ ~quit
    /\ lastKey' = "other"
    /\ lastEffect' = [ kind |-> "none", id |-> 0 ]
    /\ \E c \in { cursor } \cup 0..(Len(rows) - 1) : cursor' = c
    /\ UNCHANGED << files, conversations, rows, showConfirm, selectedID, quit, latest >>
    /\ UNCHANGED sessionVars
    /\ UNCHANGED clockVars
    /\ UNCHANGED procVars

\* Update, case "d".
KeyD ==
    /\ ~quit
    /\ lastKey' = "d"
    /\ lastEffect' = [ kind |-> "none", id |-> 0 ]
    /\ IF OpensConfirm(showConfirm, conversations)
       THEN /\ showConfirm' = TRUE
            /\ selectedID' = conversations[cursor + 1].id
       ELSE UNCHANGED << showConfirm, selectedID >>
    /\ UNCHANGED << files, conversations, rows, cursor, quit, latest >>
    /\ UNCHANGED sessionVars
    /\ UNCHANGED clockVars
    /\ UNCHANGED procVars

\* Update, case "n".
KeyN ==
    /\ ~quit
    /\ lastKey' = "n"
    /\ lastEffect' = [ kind |-> "none", id |-> 0 ]
    /\ showConfirm' = FALSE
    /\ UNCHANGED << files, conversations, rows, cursor, selectedID, quit, latest >>
    /\ UNCHANGED sessionVars
    /\ UNCHANGED clockVars
    /\ UNCHANGED procVars

\* Update, any other key: m.table.Update(msg) moves the cursor.
KeyUpDown ==
    /\ ~quit
    /\ \E k \in { "up", "down" } :
          /\ lastKey' = k
          /\ cursor' = MoveCursor(cursor, IF k = "up" THEN -1 ELSE 1, Len(rows))
    /\ lastEffect' = [ kind |-> "none", id |-> 0 ]
    /\ UNCHANGED << files, conversations, rows, showConfirm, selectedID, quit, latest >>
    /\ UNCHANGED sessionVars
    /\ UNCHANGED clockVars
    /\ UNCHANGED procVars

\* Line 44: time.Now().Format("20060102150405") - the instant cut to its second.
FormatID(t) == t \div TicksPerSecond

\* asc new (cmd/asc.go lines 136-156): StartNewConversation is entered and
\* waits for the AI command.
NewCmd ==
    /\ Running < MaxRunning
    /\ sessions' = sessions + 1
    /\ UNCHANGED << waiting, editing, viewEditing, starting >>
    /\ UNCHANGED viewVars
    /\ UNCHANGED sessionVars
    /\ UNCHANGED clockVars

\* asc append: the conversation the follow-up is attached to is picked
\* (lines 260-270), then StartNewConversation is entered on the combined
\* message (line 277) and waits for the AI command.
AppendCmd ==
    /\ files # { }
    /\ Running < MaxRunning
    /\ latest' = [ cmd |-> "append", id |-> PickLatest(LoadConversations(files)).id ]
    /\ sessions' = sessions + 1
    /\ UNCHANGED << waiting, editing, viewEditing, starting >>
    /\ UNCHANGED << files, conversations, rows, cursor, showConfirm, selectedID,
                    quit, lastKey, lastEffect >>
    /\ UNCHANGED sessionVars
    /\ UNCHANGED clockVars

\* asc edit: the conversation whose message is edited is picked (lines
\* 294-304).  The command returns when the temp file cannot be written or
\* EDITOR is not set (lines 307-322); otherwise editCmd.Run() waits for the
\* editor (line 329).
EditCmd ==
    /\ files # { }
    /\ latest' = [ cmd |-> "edit", id |-> PickLatest(LoadConversations(files)).id ]
    /\ \E opened \in BOOLEAN :
          IF opened
          THEN /\ Running < MaxRunning
               /\ editing' = editing + 1
          ELSE editing' = editing
    /\ UNCHANGED << sessions, waiting, viewEditing, starting >>
    /\ UNCHANGED << files, conversations, rows, cursor, showConfirm, selectedID,
                    quit, lastKey, lastEffect >>
    /\ UNCHANGED sessionVars
    /\ UNCHANGED clockVars

\* asc edit, lines 329-340: the editor has exited.  On an error of the editor
\* or of os.ReadFile the command returns; otherwise StartNewConversation is
\* entered on the edited message.
EditorExits ==
    /\ editing > 0
    /\ editing' = editing - 1
    /\ \E ok \in BOOLEAN : sessions' = IF ok THEN sessions + 1 ELSE sessions
    /\ UNCHANGED << waiting, viewEditing, starting >>
    /\ UNCHANGED viewVars
    /\ UNCHANGED sessionVars
    /\ UNCHANGED clockVars

\* Lines 29-77: the SaveNewConversation call of a running session, at the
\* instant now.  outcome "ok": both os.WriteFile calls succeed and the
\* session goes on to aiCmd.Wait(); "early": it fails before a file is
\* written; "late": the first write succeeded, the second failed; on both
\* failures StartNewConversation returns (line 239).  os.WriteFile creates
\* the file or truncates the one of that name.
SaveNew ==
    /\ sessions > 0
    /\ saves < MaxSaves
    /\ now < MaxConversations * TicksPerSecond + MaxTicks
    /\ now' = now + 1
    /\ sessions' = sessions - 1
    /\ \E outcome \in { "ok", "early", "late" } :
          /\ files' = IF outcome = "early" THEN files
                      ELSE files \cup { FormatID(now) }
          /\ saves' = IF outcome = "ok" THEN saves + 1 ELSE saves
          /\ waiting' = IF outcome = "ok" THEN waiting + 1 ELSE waiting
    /\ UNCHANGED << editing, viewEditing, starting >>
    /\ UNCHANGED << conversations, rows, cursor, showConfirm, selectedID, quit,
                    lastKey, lastEffect, latest >>
    /\ UNCHANGED sessionVars

\* StartNewConversation returns before line 238 (LoadContext, the start of
\* the AI command, the scanner or glow failed): nothing is saved.
SessionFails ==
    /\ sessions > 0
    /\ sessions' = sessions - 1
    /\ UNCHANGED << waiting, editing, viewEditing, starting >>
    /\ UNCHANGED viewVars
    /\ UNCHANGED sessionVars
    /\ UNCHANGED clockVars

\* Lines 272-277: aiCmd.Wait() returns and StartNewConversation with it.
WaitReturns ==
    /\ waiting > 0
    /\ waiting' = waiting - 1
    /\ UNCHANGED << sessions, editing, viewEditing, starting >>
    /\ UNCHANGED viewVars
    /\ UNCHANGED sessionVars
    /\ UNCHANGED clockVars

\* Time passes.
Tick ==
    /\ now < MaxConversations * TicksPerSecond + MaxTicks
    /\ now' = now + 1
    /\ UNCHANGED saves
    /\ UNCHANGED viewVars
    /\ UNCHANGED sessionVars
    /\ UNCHANGED procVars

NextView ==
    \/ KeyEscQ
    \/ KeyConfirmDeleted
    \/ KeyConfirmFailed
    \/ KeyEnterV
    \/ KeyShiftV
    \/ KeyE
    \/ EditComplete
    \/ EditFailed
    \/ ExecStarts
    \/ OtherMsg
    \/ KeyOther
    \/ KeyD
    \/ KeyN
    \/ KeyUpDown
    \/ NewCmd
    \/ AppendCmd
    \/ EditCmd
    \/ EditorExits
    \/ SaveNew
    \/ SessionFails
    \/ WaitReturns
    \/ Tick

SpecView == InitView /\ [][NextView]_vars

\* ---------------------------------------------------------------------
\* The conversation files as successive runs of asc write them
\* (SaveNewConversation), with the clock the IDs are taken from.
\* ---------------------------------------------------------------------

\* The data directory holds the files fs; the history view was started
\* when the directory was still empty.
InitStore ==
    /\ InitSession(<< "q" >>, << "c" >>, FALSE)
    /\ \E fs \in SUBSET ConvIDs : files = fs
    /\ conversations = << >>
    /\ rows = << >>
    /\ cursor = SetRowsCursor(0, 0)
    /\ showConfirm = FALSE
    /\ selectedID = 0
    /\ quit = FALSE
    /\ lastKey = "none"
    /\ lastEffect = [ kind |-> "none", id |-> 0 ]
    /\ latest = [ cmd |-> "none", id |-> 0 ]
    /\ InitClock

NextStore ==
    \/ NewCmd
    \/ AppendCmd
    \/ EditCmd
    \/ EditorExits
    \/ SaveNew
    \/ SessionFails
    \/ WaitReturns
    \/ Tick

SpecStore == InitStore /\ [][NextStore]_vars

TypeOK ==
    /\ pc \in { "scan", "glow", "save", "wait", "done" }
    /\ ret \in { "running", "nil", "errRead", "errGlow", "errSave", "errWait" }
    /\ nfrag \in 0..MaxFragments
    /\ previousGlowOutput \in Renders

\* ---------------------------------------------------------------------
\* Vocabulary of the properties
\* ---------------------------------------------------------------------

\* Number of lines of a text: one more than its number of newlines.
LineCount(s) == Cardinality({ i \in 1..Len(s) : s[i] = NL }) + 1

\* The set of line indices printed so far.
PrintedIndexSet == { printedIdx[k] : k \in 1..Len(printedIdx) }

\* The indices lo, lo+1, ..., hi-1 as a sequence (empty when hi <= lo).
Range(lo, hi) == [ k \in 1..max(0, hi - lo) |-> lo + k - 1 ]

\* ---------------------------------------------------------------------
\* C1: when the session reaches end-of-stream, the lines printed over the
\* whole session (all emits, then the flush) are exactly the lines of the
\* final render, in order, none missing and none duplicated.
\* ---------------------------------------------------------------------
C1_PrintedIsFinalRender ==
    flushed => printed = Split(previousGlowOutput)

\* ---------------------------------------------------------------------
\* C2: no rendered-output line position is printed more than once in a
\* session, also when a later render has fewer lines than an earlier one.
\* ---------------------------------------------------------------------
C2_NoPositionPrintedTwice ==
    \A i, j \in 1..Len(printedIdx) : i # j => printedIdx[i] # printedIdx[j]

\* ---------------------------------------------------------------------
\* C3: on a fragment whose render differs from the previous render, the
\* lines printed are exactly those of the new render at indices
\* [max(0, P - HELD_OUT_LINE_COUNT), C - HELD_OUT_LINE_COUNT), P the line
\* count of the previous render (0 at session start), C that of the new one;
\* with a held-out count of 3, renders of 2, 5 and the same 5 lines print
\* nothing, the first 2 lines, nothing, and completion prints the last 3.
\* ---------------------------------------------------------------------
C3_Example ==
    LET r1 == << "a", NL, "b" >>
        r2 == << "a", NL, "b", NL, "c", NL, "d", NL, "e" >>
    IN  /\ FragmentLines(<< >>, r1, 3) = << >>
        /\ FragmentLines(r1, r2, 3) = << <<"a">>, <<"b">> >>
        /\ FragmentLines(r2, r2, 3) = << >>
        /\ FlushLines(r2, 3) = << <<"c">>, <<"d">>, <<"e">> >>

C3_EmitRange ==
    /\ [] C3_Example
    /\ [][ (pc = "glow" /\ pc' = "scan" /\ previousGlowOutput' # previousGlowOutput)
           => LET P  == IF glowCalls = 0 THEN 0 ELSE LineCount(previousGlowOutput)
                  C  == LineCount(previousGlowOutput')
                  lo == max(0, P - HELD_OUT_LINE_COUNT)
                  hi == C - HELD_OUT_LINE_COUNT
              IN  /\ printed' = printed \o SubSeq(Split(previousGlowOutput'), lo + 1, hi)
                  /\ printedIdx' = printedIdx \o Range(lo, hi) ]_vars

\* Two changed renders have each printed a line: index 0, then index 1.
C3_Witness ==
    /\ glowCalls = 2
    /\ ~flushed
    /\ printedIdx = << 0, 1 >>

\* ---------------------------------------------------------------------
\* C4: when the stream ends immediately with no fragment, the completion
\* step prints nothing (not even an empty line) and the final accumulated
\* text is the empty string.
\* ---------------------------------------------------------------------
C4_EmptyStreamPrintsNothing ==
    (flushed /\ nfrag = 0) => (printed = << >> /\ TrimRight(buffer) = << >>)

\* ---------------------------------------------------------------------
\* C5: if the renderer fails on a fragment, StartNewConversation returns
\* an error, prints nothing after the lines already emitted for earlier
\* fragments (no flush of the withheld tail) and never calls
\* SaveNewConversation.
\* ---------------------------------------------------------------------
C5_RenderFailureAborts ==
    /\ [] (ret = "errGlow" =>
              /\ pc = "done"
              /\ ~flushed
              /\ saveCalls = 0
              /\ store = << >>)
    /\ [][ ret' = "errGlow" => (printed' = printed /\ printedIdx' = printedIdx) ]_vars

\* glow failed on the second fragment, after the first one printed lines.
C5_Witness ==
    /\ ret = "errGlow"
    /\ glowCalls = 2
    /\ Len(printed) > 0

\* ---------------------------------------------------------------------
\* C6: whenever the upstream source fails before completing successfully
\* (a read error on the pipe, or the AI command ending with a failure
\* status), the withheld tail of the last render is never printed.
\* ---------------------------------------------------------------------
C6_SourceFailureNoFlush ==
    ret \in { "errRead", "errWait" } => ~flushed

\* ---------------------------------------------------------------------
\* C7: whenever StartNewConversation returns an error caused by the
\* upstream source (read error, or AI command failure status), no
\* conversation record has been persisted for the session.
\* ---------------------------------------------------------------------
C7_SourceFailureNoRecord ==
    ret \in { "errRead", "errWait" } => store = << >>

\* ---------------------------------------------------------------------
\* C8: a save failure is returned only after the complete response was
\* displayed: when SaveNewConversation is called, every line of the final
\* render has been printed (the line of each position, with the text it has
\* in the final render) and the previously withheld tail is the last thing
\* on screen.
\* ---------------------------------------------------------------------
C8_DisplayedBeforeSave ==
    (pc = "save" \/ saveCalls > 0) =>
        LET lines == Split(previousGlowOutput)
            n     == LineCount(previousGlowOutput)
            t     == IF n < HELD_OUT_LINE_COUNT THEN n ELSE HELD_OUT_LINE_COUNT
        IN  /\ \A i \in 0..(n - 1) :
                  \E k \in 1..Len(printed) : printedIdx[k] = i /\ printed[k] = lines[i + 1]
            /\ Len(printed) >= t
            /\ SubSeq(printed, Len(printed) - t + 1, Len(printed)) = SubSeq(lines, n - t + 1, n)

\* ---------------------------------------------------------------------
\* C9: session states.  Idle: nothing consumed yet; Streaming: at least one
\* fragment consumed; Completed: end-of-stream seen and tail flushed;
\* Failed: renderer or read error returned.
\* ---------------------------------------------------------------------
SessionState ==
    IF flushed THEN "Completed"
    ELSE IF ret \in { "errRead", "errGlow" } THEN "Failed"
    ELSE IF nfrag = 0 THEN "Idle"
    ELSE "Streaming"

\* Completed and Failed are terminal: nothing is consumed, rendered or printed.
TerminalIsFinal ==
    SessionState \in { "Completed", "Failed" } =>
        /\ SessionState' = SessionState
        /\ nfrag' = nfrag
        /\ glowCalls' = glowCalls
        /\ printed' = printed

\* C9 as stated: a session moves only along Idle->Streaming,
\* Streaming->Streaming, Streaming->Completed and Streaming->Failed, and
\* Completed and Failed are terminal.
C9_OnlyListedTransitions ==
    [][ /\ SessionState' # SessionState =>
             << SessionState, SessionState' >> \in
                 { << "Idle", "Streaming" >>,
                   << "Streaming", "Completed" >>,
                   << "Streaming", "Failed" >> }
        /\ TerminalIsFinal ]_vars

\* C9 amended: the listed transitions, plus Idle->Completed (end-of-stream
\* before any fragment) and Idle->Failed (read error before any fragment);
\* Completed and Failed are terminal.
C9_Transitions ==
    [][ /\ SessionState' # SessionState =>
             << SessionState, SessionState' >> \in
                 { << "Idle", "Streaming" >>,
                   << "Streaming", "Completed" >>,
                   << "Streaming", "Failed" >>,
                   << "Idle", "Completed" >>,
                   << "Idle", "Failed" >> }
        /\ TerminalIsFinal ]_vars

\* A session that completed without ever streaming has returned.
C9_Witness ==
    /\ SessionState = "Completed"
    /\ nfrag = 0
    /\ pc = "done"

\* The lines of a render as the completion step of the specification counts
\* them: a render that is empty (none was ever made) has no line.
RenderLines(s) == IF s = << >> THEN << >> ELSE Split(s)

\* ---------------------------------------------------------------------
\* C10: on end-of-stream the completion step prints, in order and exactly
\* once, every line of the last render from index
\* max(0, length - HELD_OUT_LINE_COUNT) through its last line, after which
\* no line of the final render is left unprinted: each of its lines has
\* been printed with the text it has in the final render.
\* ---------------------------------------------------------------------
C10_FlushPrintsTail ==
    /\ [][ (~flushed /\ flushed')
           => LET lines == RenderLines(previousGlowOutput)
                  n     == Len(lines)
                  lo    == max(0, n - HELD_OUT_LINE_COUNT)
              IN  /\ previousGlowOutput' = previousGlowOutput
                  /\ printed' = printed \o SubSeq(lines, lo + 1, n)
                  /\ printedIdx' = printedIdx \o Range(lo, n) ]_vars
    /\ [][ flushed => (printed' = printed /\ printedIdx' = printedIdx) ]_vars
    /\ [] (flushed =>
              LET lines == RenderLines(previousGlowOutput)
              IN  \A i \in 1..Len(lines) :
                     \E k \in 1..Len(printed) :
                        printedIdx[k] = i - 1 /\ printed[k] = lines[i])

\* The newline-terminated concatenation of the given lines.
RECURSIVE JoinLines(_)
JoinLines(ls) ==
    IF ls = << >> THEN << >>
    ELSE Head(ls) \o << NL >> \o JoinLines(Tail(ls))

\* r is text without its trailing newline and carriage-return characters.
IsTrimOf(r, text) ==
    \E n \in 0..Len(text) :
        /\ r = SubSeq(text, 1, n)
        /\ \A i \in (n + 1)..Len(text) : text[i] \in { NL, CR }
        /\ n = 0 \/ text[n] \notin { NL, CR }

\* s is a prefix of t.
IsPrefix(s, t) == Len(s) <= Len(t) /\ s = SubSeq(t, 1, Len(s))

\* ---------------------------------------------------------------------
\* C11 as stated: at every point before end-of-stream the number of lines
\* printed so far is at most max(0, L - HELD_OUT_LINE_COUNT), L the line
\* count of the most recent render, so none of its trailing lines is printed.
\* ---------------------------------------------------------------------
C11_WithheldTailUnprinted ==
    ~flushed => Len(printed) <= max(0, LineCount(previousGlowOutput) - HELD_OUT_LINE_COUNT)

\* C11 amended: at every point before end-of-stream every line position
\* printed so far is below max(0, M - HELD_OUT_LINE_COUNT), M the greatest
\* line count of any render so far: the trailing HELD_OUT_LINE_COUNT lines
\* of the longest render so far are unprinted.
C11_PrintedBelowLongestRender ==
    ~flushed => \A i \in PrintedIndexSet : i < max(0, maxLines - HELD_OUT_LINE_COUNT)

\* A render shorter than an earlier one: more is on screen than it releases.
C11_Witness ==
    /\ ~flushed
    /\ LineCount(previousGlowOutput) < maxLines
    /\ Len(printed) > max(0, LineCount(previousGlowOutput) - HELD_OUT_LINE_COUNT)

\* ---------------------------------------------------------------------
\* C12: the response handed to SaveNewConversation is the newline-
\* terminated concatenation of all fragments in arrival order with every
\* trailing newline and carriage return removed and nothing else changed.
\* ---------------------------------------------------------------------
C12_SavedResponseIsTrimmedText ==
    /\ Len(saveArgs) = saveCalls
    /\ \A k \in 1..Len(saveArgs) : IsTrimOf(saveArgs[k].response, JoinLines(delivered))

\* A carriage return and a newline inside the text are kept, the last newline is not.
C12_Witness ==
    /\ Len(saveArgs) = 1
    /\ delivered = << << CR >>, << "a" >> >>
    /\ saveArgs[1].response = << CR, NL, "a" >>

\* ---------------------------------------------------------------------
\* C13: when a fragment's render equals the previous RenderState, nothing
\* is printed and RenderState is unchanged; only the Accumulator grew.
\* ---------------------------------------------------------------------
C13_SameRenderPrintsNothing ==
    /\ [][ (pc = "glow" /\ pc' = "scan" /\ ~renderChanged')
           => /\ printed' = printed
              /\ printedIdx' = printedIdx
              /\ previousGlowOutput' = previousGlowOutput
              /\ buffer' = buffer ]_vars
    /\ [][ (pc = "scan" /\ pc' = "glow")
           => /\ Len(buffer') > Len(buffer)
              /\ printed' = printed
              /\ previousGlowOutput' = previousGlowOutput ]_vars

\* The same six-line render came twice; its two stable lines were printed once.
C13_Witness ==
    /\ glowCalls = 2
    /\ ~renderChanged
    /\ LineCount(previousGlowOutput) = 6
    /\ printedIdx = << 0, 1 >>

\* ---------------------------------------------------------------------
\* C14 as stated: when the renders never change their last
\* HELD_OUT_LINE_COUNT lines until completion, nothing is emitted during
\* onFragment and all output is emitted during onComplete.
\* ---------------------------------------------------------------------
C14_StableTailAllAtCompletion ==
    tailStable => /\ ~flushed => printed = << >>
                  /\ flushed => printed = Split(previousGlowOutput)

\* C14 amended: when no render has more than HELD_OUT_LINE_COUNT lines,
\* nothing is emitted during onFragment and all output during onComplete.
C14_ShortRendersAllAtCompletion ==
    maxLines <= HELD_OUT_LINE_COUNT =>
        /\ ~flushed => printed = << >>
        /\ flushed => printed = Split(previousGlowOutput)

\* Two renders of at most four lines, then the flush printed all four lines.
C14_Witness ==
    /\ flushed
    /\ glowCalls = 2
    /\ maxLines = HELD_OUT_LINE_COUNT
    /\ Len(printed) = HELD_OUT_LINE_COUNT

\* ---------------------------------------------------------------------
\* C15: the Accumulator is append-only: after each fragment it is its
\* previous value followed by the fragment and a newline, and every
\* renderer invocation receives the full Accumulator as it then stands.
\* ---------------------------------------------------------------------
C15_AccumulatorAppendOnly ==
    /\ [][ IsPrefix(buffer, buffer') ]_vars
    /\ [][ nfrag' # nfrag
           => /\ Len(delivered') = Len(delivered) + 1
              /\ buffer' = buffer \o delivered'[Len(delivered')] \o << NL >> ]_vars
    /\ [][ glowCalls' # glowCalls
           => /\ buffer' = buffer
              /\ glowStdin' = buffer
              /\ glowStdin' = JoinLines(delivered) ]_vars

\* glow was run on both lines of the accumulated text.
C15_Witness ==
    /\ glowCalls = 2
    /\ glowStdin = << "a", NL, CR, NL >>

\* ---------------------------------------------------------------------
\* C16: fragments are processed one at a time in delivery order: the
\* renderer runs exactly once per fragment, and the next fragment is read
\* only after the renderer run for the current one has finished and its
\* emit has been printed.
\* ---------------------------------------------------------------------
C16_OneFragmentAtATime ==
    /\ [] /\ pc = "glow" => nfrag = glowCalls + 1
          /\ pc # "glow" => nfrag = glowCalls
          /\ Len(delivered) = nfrag
    /\ [][ nfrag' # nfrag
           => /\ nfrag' = nfrag + 1
              /\ glowCalls = nfrag
              /\ glowCalls' = glowCalls
              /\ SubSeq(delivered', 1, nfrag) = delivered
              /\ printed' = printed ]_vars
    /\ [][ glowCalls' # glowCalls
           => /\ glowCalls' = glowCalls + 1
              /\ nfrag' = nfrag ]_vars
    /\ [][ printed' # printed => pc # "glow" \/ glowCalls' = glowCalls + 1 ]_vars

\* Two fragments, two glow runs, and the session returned nil.
C16_Witness ==
    /\ nfrag = 2
    /\ glowCalls = 2
    /\ ret = "nil"

\* ---------------------------------------------------------------------
\* C17: append and edit, given no explicit ID, pick as latest the
\* conversation with the greatest timestamp among those in the store.
\* ---------------------------------------------------------------------
C17_LatestIsNewest ==
    [][ latest' # latest
        => \A f \in files : Conv(latest'.id).ts >= Conv(f).ts ]_vars

\* ---------------------------------------------------------------------
\* C18: DeleteConversation is invoked only when the confirmation dialog is
\* showing and the key is enter or v; the dialog is entered only by d on a
\* non-empty list, and no other key path removes a conversation.
\* ---------------------------------------------------------------------
DeleteInvoked ==
    /\ lastEffect'.kind \in { "deleted", "deleteFailed" }
    /\ lastEffect' # lastEffect \/ lastKey' # lastKey \/ showConfirm' # showConfirm

C18_DeleteOnlyWhenConfirmed ==
    /\ [][ DeleteInvoked
           => /\ showConfirm
              /\ lastKey' \in { "enter", "v" }
              /\ lastEffect'.id = selectedID ]_vars
    /\ [][ (files \ files' # { } \/ conversations' # conversations)
           => /\ DeleteInvoked
              /\ files' = files \ { selectedID } ]_vars
    /\ [][ (~showConfirm /\ showConfirm')
           => /\ lastKey' = "d"
              /\ Len(conversations) > 0 ]_vars

\* A conversation was deleted from the dialog and others remain.
C18_Witness ==
    /\ lastEffect.kind = "deleted"
    /\ lastKey = "v"
    /\ lastEffect.id \notin files
    /\ ~showConfirm
    /\ files # { }

\* ---------------------------------------------------------------------
\* C19: while the dialog is showing, n, esc and q close it without
\* deleting, without changing the list and without quitting; q and esc
\* quit the program only when the dialog is not showing.
\* ---------------------------------------------------------------------
C19_CancelClosesDialog ==
    /\ [][ (showConfirm /\ lastKey' \in { "n", "esc", "q" } /\ lastKey' # lastKey)
           => /\ ~showConfirm'
              /\ ~DeleteInvoked
              /\ UNCHANGED << files, conversations, rows >>
              /\ quit' = quit ]_vars
    /\ [][ (~quit /\ quit')
           => /\ ~showConfirm
              /\ lastKey' \in { "esc", "q" } ]_vars
    /\ [][ (~showConfirm /\ lastKey' \in { "esc", "q" } /\ lastKey' # lastKey)
           => quit' ]_vars

\* esc closed the dialog: the program runs on and the conversation is kept.
C19_Witness ==
    /\ lastKey = "esc"
    /\ ~quit
    /\ ~showConfirm
    /\ selectedID \in files
    /\ Len(conversations) = Cardinality(files)

\* ---------------------------------------------------------------------
\* C20: the query sent to the AI command is the message alone when
\* perplexity was requested or the context is empty, and otherwise
\* "# Context\n<context>\n\n# Question\n<message>"; the persisted record
\* stores the message without the context prefix.
\* ---------------------------------------------------------------------
C20_QueryAndRecord ==
    /\ query = IF usePerplexity \/ context = << >>
               THEN message
               ELSE << "#", " ", "C", "o", "n", "t", "e", "x", "t", NL >> \o context
                    \o << NL, NL, "#", " ", "Q", "u", "e", "s", "t", "i", "o", "n", NL >>
                    \o message
    /\ \A k \in 1..Len(saveArgs) :
          /\ saveArgs[k].message = message
          /\ saveArgs[k].context = context
    /\ \A k \in 1..Len(store) : store[k].message = message

\* A query with the context prefix was sent and the bare message was stored.
C20_Witness ==
    /\ ~usePerplexity
    /\ context = << "c" >>
    /\ Len(query) = Len(message) + 24
    /\ \E k \in 1..Len(store) : store[k].message = << "q" >>

\* ---------------------------------------------------------------------
\* C21: the history view lists conversations newest first: after
\* StartView's sort and after any sequence of successful deletions the
\* list is ordered by non-increasing timestamp (and the rows follow it).
\* ---------------------------------------------------------------------
C21_ListNewestFirst ==
    /\ \A i, j \in 1..Len(conversations) :
          i < j => conversations[i].ts >= conversations[j].ts
    /\ rows = RowsOf(conversations)

\* A deletion left two conversations, the newer one first.
C21_Witness ==
    /\ lastEffect.kind = "deleted"
    /\ Len(conversations) = 2
    /\ conversations[1].ts > conversations[2].ts

\* ---------------------------------------------------------------------
\* C22: when the line counts of successive renders never decrease, the
\* index ranges printed by the successive fragments and by the final flush
\* are contiguous and disjoint and cover exactly [0, length of the final
\* render): the indices printed so far are 0, 1, 2, ... in order, up to
\* the withheld lines before the flush and up to the last line after it.
\* ---------------------------------------------------------------------
C22_ContiguousRanges ==
    nonDecreasing =>
        /\ ~flushed => printedIdx = Range(0, max(0, LineCount(previousGlowOutput)
                                                    - HELD_OUT_LINE_COUNT))
        /\ flushed => printedIdx = Range(0, LineCount(previousGlowOutput))

\* Two different renders, the second not shorter, and the flush: 0..5 printed.
C22_Witness ==
    /\ flushed
    /\ nonDecreasing
    /\ glowCalls = 2
    /\ renderChanged
    /\ printedIdx = << 0, 1, 2, 3, 4, 5 >>

\* ---------------------------------------------------------------------
\* C23: SaveNewConversation is invoked at most once per
\* StartNewConversation call, only on end-of-stream and after the final
\* flush; StartNewConversation returns nil only if that save succeeded and
\* the AI command then exited successfully.
\* ---------------------------------------------------------------------
C23_SaveOnceAfterFlush ==
    /\ [] /\ saveCalls <= 1
          /\ saveCalls = 1 => flushed
          /\ ret = "nil" => /\ saveCalls = 1
                            /\ Len(store) = 1
                            /\ store[1].filePath
                            /\ waitResult = "ok"
    /\ [][ saveCalls' # saveCalls
           => /\ flushed
              /\ pc = "save"
              /\ waitResult = "none"
              /\ printed' = printed
              /\ nfrag' = nfrag ]_vars

\* Two fragments, one save, a successful exit: nil is returned.
C23_Witness ==
    /\ ret = "nil"
    /\ saveCalls = 1
    /\ waitResult = "ok"
    /\ nfrag = 2

\* ---------------------------------------------------------------------
\* C24: the conversation removed on confirmation is the one that was under
\* the cursor when d was pressed (selectedID), whatever keys came between;
\* every other conversation stays in the list in its relative order and
\* the dialog closes.
\* ---------------------------------------------------------------------
C24_DeletesSelected ==
    /\ [][ (~showConfirm /\ showConfirm')
           => /\ Len(conversations) > 0
              /\ selectedID' = conversations[cursor + 1].id ]_vars
    /\ [][ (showConfirm /\ showConfirm')
           => /\ selectedID' = selectedID
              /\ conversations' = conversations ]_vars
    /\ [][ (DeleteInvoked /\ lastEffect'.kind = "deleted")
           => /\ lastEffect'.id = selectedID
              /\ files' = files \ { selectedID }
              /\ conversations' = SelectSeq(conversations, LAMBDA c : c.id # selectedID)
              /\ Len(conversations') = Len(conversations) - 1
              /\ rows' = RowsOf(conversations')
              /\ ~showConfirm' ]_vars

\* The first row was selected, the cursor then moved down, and the first
\* row's conversation is the one that was deleted.
C24_Witness ==
    /\ lastEffect = [ kind |-> "deleted", id |-> 3 ]
    /\ lastKey = "enter"
    /\ conversations = << Conv(2), Conv(1) >>
    /\ cursor = 1

\* ---------------------------------------------------------------------
\* C25: while the confirmation dialog is showing, only enter/v and
\* n/esc/q have any effect: no pager, glow viewer or editor is launched
\* and the table cursor does not move until the dialog is closed.
\* ---------------------------------------------------------------------
C25_DialogIsModal ==
    [][ (showConfirm /\ lastKey' # lastKey
                     /\ lastKey' \notin { "enter", "v", "n", "esc", "q" })
        => /\ cursor' = cursor
           /\ lastEffect'.kind \notin { "pager", "glow", "editor" }
           /\ UNCHANGED << conversations, rows, showConfirm, selectedID, quit >> ]_vars

\* ---------------------------------------------------------------------
\* C26: if DeleteConversation fails on confirmation, the conversation
\* list and the table rows are left unchanged and the dialog stays open
\* with the same selectedID.
\* ---------------------------------------------------------------------
C26_FailedDeleteKeepsState ==
    [][ (DeleteInvoked /\ lastEffect'.kind = "deleteFailed")
        => /\ showConfirm
           /\ showConfirm'
           /\ UNCHANGED << conversations, rows, selectedID, files >> ]_vars

\* A delete failed: the dialog still shows for the same conversation.
C26_Witness ==
    /\ lastEffect.kind = "deleteFailed"
    /\ lastEffect.id = selectedID
    /\ showConfirm
    /\ selectedID \in files
    /\ Len(rows) = Cardinality(files)
    /\ Len(rows) >= 2

\* ---------------------------------------------------------------------
\* C27: SaveNewConversation never overwrites an existing record: every
\* successful save adds one file, so the number of stored conversations
\* grows by one on every successful save.
\* ---------------------------------------------------------------------
C27_SaveNeverOverwrites ==
    [][ saves' = saves + 1
        => /\ FormatID(now) \notin files
           /\ Cardinality(files') = Cardinality(files) + 1 ]_vars

====
